---- MODULE Spec2Model ----
(***************************************************************************)
(* A model of classes/block.py: the Block of a blockMesh description, its  *)
(* topology tables, geometric queries, deferred count/grading requests,    *)
(* patches and its serialization.                                          *)
(*                                                                         *)
(* Conventions.  Python's None is the empty tuple and a present value x is *)
(* the one-element tuple <<x>>, so that optional values of any type can be *)
(* compared.  Real numbers are exact rationals [num, den] with den > 0;    *)
(* lengths are integers in an arbitrary unit.  Every operation records its *)
(* name and arguments in op, its return value in ret and the exception it  *)
(* raised (or "none") in exc.                                              *)
(***************************************************************************)
EXTENDS Integers, Sequences, FiniteSets, TLC

VARIABLES
    vertices,           \* Block.vertices: local index 0..7 -> Vertex.mesh_index
    distance,           \* f.norm(point_i - point_j) of every table pair {i, j}
    edges,              \* Block.edges: list of [block_index_1, block_index_2, length]
    n_cells,            \* Block.n_cells, axis -> optional count
    grading,            \* Block.grading, axis -> optional ratio
    cell_zone,          \* Block.cell_zone
    description,        \* Block.description
    patches,            \* Block.patches: patch name -> list of sides
    mesh_index,         \* Block.mesh_index
    deferred_counts,    \* Block.deferred_counts
    deferred_gradings,  \* Block.deferred_gradings
    counts_done,        \* entries of deferred_counts the orchestrator has invoked
    gradings_done,      \* entries of deferred_gradings the orchestrator has invoked
    op,                 \* the last operation: [name, args]
    ret,                \* its return value
    exc,                \* the exception it raised, "none" if it returned
    size_queued,        \* history: axis -> get_size(axis) when its latest count request was queued
    size_seen,          \* history: axis -> get_size(axis) read by its latest _count_to_size
    patch_log           \* history: the set_patch calls, as <<sides, patch_name>>, in call order

vars == <<vertices, distance, edges, n_cells, grading, cell_zone, description,
          patches, mesh_index, deferred_counts, deferred_gradings, counts_done,
          gradings_done, op, ret, exc, size_queued, size_seen, patch_log>>

block == <<vertices, distance, edges, n_cells, grading, cell_zone, description,
           patches, mesh_index, deferred_counts, deferred_gradings>>

-----------------------------------------------------------------------------
(* Values *)

None == <<>>
Some(x) == <<x>>
Val(o) == o[1]

Axes == 0 .. 2
Locals == 0 .. 7

Rat(n, d) == [num |-> n, den |-> d]
Abs(i) == IF i < 0 THEN -i ELSE i

RECURSIVE Gcd(_, _)
Gcd(a, b) == IF b = 0 THEN a ELSE Gcd(b, a % b)

\* the rational n/d (d # 0) in lowest terms with a positive denominator
Norm(n, d) ==
    LET g == Gcd(Abs(n), Abs(d))
        s == IF d < 0 THEN -1 ELSE 1
    IN  Rat((s * n) \div g, (s * d) \div g)

RatMul(a, b) == Norm(a.num * b.num, a.den * b.den)
RatDiv(a, b) == Norm(a.num * b.den, a.den * b.num)
RatAdd(a, b) == Norm(a.num * b.den + b.num * a.den, a.den * b.den)
RatSub(a, b) == Norm(a.num * b.den - b.num * a.den, a.den * b.den)
RatLess(a, b) == a.num * b.den < b.num * a.den
RatAbs(a) == Rat(Abs(a.num), a.den)
FromInt(i) == Rat(i, 1)

\* Python's int(x) of a float: truncation toward zero
int(q) == IF q.num >= 0 THEN q.num \div q.den ELSE -((-q.num) \div q.den)

\* str() of an optional integer (None prints as None)
str(o) == IF o = None THEN "None" ELSE ToString(Val(o))

-----------------------------------------------------------------------------
(* Topology tables *)

face_map ==
    [side \in {"bottom", "top", "left", "right", "front", "back"} |->
        CASE side = "bottom" -> <<0, 1, 2, 3>>
          [] side = "top"    -> <<4, 5, 6, 7>>
          [] side = "left"   -> <<4, 0, 3, 7>>
          [] side = "right"  -> <<5, 1, 2, 6>>
          [] side = "front"  -> <<4, 5, 1, 0>>
          [] side = "back"   -> <<7, 6, 2, 3>>]

\* axis a is entry a + 1
axis_pair_indexes ==
    << << <<0, 1>>, <<3, 2>>, <<4, 5>>, <<7, 6>> >>,
       << <<0, 3>>, <<1, 2>>, <<5, 6>>, <<4, 7>> >>,
       << <<0, 4>>, <<1, 5>>, <<2, 6>>, <<3, 7>> >> >>

TablePairs == {{axis_pair_indexes[a + 1][k][1], axis_pair_indexes[a + 1][k][2]} :
                   a \in Axes, k \in 1 .. 4}

-----------------------------------------------------------------------------
(* Geometric queries *)

Edge(i1, i2, len) == [block_index_1 |-> i1, block_index_2 |-> i2, length |-> len]

\* the first edge of self.edges between the two local indexes, else None
find_edge(index_1, index_2) ==
    LET hits == {k \in 1 .. Len(edges) :
                    {edges[k].block_index_1, edges[k].block_index_2} = {index_1, index_2}}
    IN  IF hits = {} THEN None
        ELSE Some(edges[CHOOSE k \in hits : \A j \in hits : k <= j])

vertex_distance(index_1, index_2) == distance[{index_1, index_2}]

block_size(index_1, index_2) ==
    LET edge == find_edge(index_1, index_2)
    IN  IF edge # None THEN Val(edge).length ELSE vertex_distance(index_1, index_2)

RECURSIVE sum_edges(_, _)
sum_edges(axis, k) ==
    IF k = 0 THEN 0
    ELSE sum_edges(axis, k - 1)
         + block_size(axis_pair_indexes[axis + 1][k][1], axis_pair_indexes[axis + 1][k][2])

\* sum_edges/4
get_size(axis) == Norm(sum_edges(axis, 4), 4)

\* a faulty variant of axis_vertex_pairs: coincident vertices are not skipped
RECURSIVE axis_vertex_pairs_keep_all(_, _)
axis_vertex_pairs_keep_all(axis, k) ==
    IF k = 0 THEN <<>>
    ELSE LET pair == axis_pair_indexes[axis + 1][k]
         IN  Append(axis_vertex_pairs_keep_all(axis, k - 1),
                    {vertices[pair[1]], vertices[pair[2]]})
\* the loop of get_axis_vertex_pairs over the first k table pairs of the axis
RECURSIVE axis_vertex_pairs(_, _)
axis_vertex_pairs(axis, k) ==
    IF k = 0 THEN <<>>
    ELSE LET pair == axis_pair_indexes[axis + 1][k]
             pairs == axis_vertex_pairs(axis, k - 1)
         IN  IF vertices[pair[1]] = vertices[pair[2]]
             THEN pairs
             ELSE Append(pairs, {vertices[pair[1]], vertices[pair[2]]})

get_axis_vertex_pairs(axis) == axis_vertex_pairs(axis, 4)

InList(x, list) == \E k \in 1 .. Len(list) : list[k] = x

\* a faulty variant of axis_from_pair: the last matching axis
axis_from_pair_last(pair) ==
    LET hits == {i \in Axes : InList({pair[1], pair[2]}, get_axis_vertex_pairs(i))}
    IN  IF hits = {} THEN None ELSE Some(CHOOSE i \in hits : \A j \in hits : j <= i)
\* pair is a 2-tuple of global indexes; the first axis whose pairs hold set(pair)
axis_from_pair(pair) ==
    LET hits == {i \in Axes : InList({pair[1], pair[2]}, get_axis_vertex_pairs(i))}
    IN  IF hits = {} THEN None ELSE Some(CHOOSE i \in hits : \A j \in hits : i <= j)

-----------------------------------------------------------------------------
(* Deferred computations *)

\* DeferredFunction.__init__: the callable (by name) and its positional arguments
DeferredFunction(callable, args) == [callable |-> callable, args |-> args]

Op(name, args) == [name |-> name, args |-> args]

\* a faulty variant of queue_append: the new entry jumps the queue
queue_prepend(queue, df) == <<df>> \o queue
\* list.append
queue_append(queue, df) == Append(queue, df)

count_to_size(axis, cell_size) ==
    /\ deferred_counts' =
           queue_append(deferred_counts, DeferredFunction("_count_to_size", <<axis, cell_size>>))
    /\ op' = Op("count_to_size", <<axis, cell_size>>)
    /\ ret' = None
    /\ exc' = "none"
    /\ size_queued' = [size_queued EXCEPT ![axis] = Some(get_size(axis))]
    /\ UNCHANGED <<vertices, distance, edges, n_cells, grading, cell_zone, description,
                   patches, mesh_index, deferred_gradings, counts_done, gradings_done,
                   size_seen, patch_log>>

grade_to_size(axis, cell_size, inverse) ==
    /\ deferred_gradings' =
           queue_append(deferred_gradings,
                        DeferredFunction("_grade_to_size", <<axis, cell_size, inverse>>))
    /\ op' = Op("grade_to_size", <<axis, cell_size, inverse>>)
    /\ ret' = None
    /\ exc' = "none"
    /\ UNCHANGED <<vertices, distance, edges, n_cells, grading, cell_zone, description,
                   patches, mesh_index, deferred_counts, counts_done, gradings_done,
                   size_queued, size_seen, patch_log>>

-----------------------------------------------------------------------------
(* Count from size *)

\* block_size/cell_size with cell_size = 0: ZeroDivisionError on Python floats; with a
\* NumPy float the quotient is inf or nan and int() raises OverflowError or ValueError.
\* Which one depends on f.norm and Edge.get_length, which are outside this file.
DivisionFailures == {"ZeroDivisionError", "OverflowError", "ValueError"}

\* a faulty variant of count_for: rounds the quotient up
count_for_ceil(axis, cell_size) ==
    LET q == RatDiv(get_size(axis), FromInt(cell_size))
    IN  -((-q.num) \div q.den)
\* a faulty variant of count_for: the block is measured when the request is queued
count_for_size_queued(axis, cell_size) ==
    int(RatDiv(Val(size_queued[axis]), FromInt(cell_size)))
\* int(block_size/cell_size), cell_size # 0
count_for(axis, cell_size) == int(RatDiv(get_size(axis), FromInt(cell_size)))

_count_to_size(axis, cell_size) ==
    /\ IF cell_size = 0
       THEN /\ exc' \in DivisionFailures
            /\ ret' = None
            /\ n_cells' = n_cells
       ELSE LET count == count_for(axis, cell_size)
            IN  /\ n_cells' = [n_cells EXCEPT ![axis] = Some(count)]
                /\ ret' = Some(count)
                /\ exc' = "none"
    /\ UNCHANGED grading

-----------------------------------------------------------------------------
(* Grading from size *)

Float(q) == [kind |-> "float", num |-> q.num, den |-> q.den]
Integer(i) == [kind |-> "int", num |-> i, den |-> 1]
\* inf/inf
NaN == [kind |-> "nan", num |-> 0, den |-> 1]
\* a ratio computed from a root that is no rational number of RootCandidates
Irrational == [kind |-> "irrational", num |-> 0, den |-> 1]

RECURSIVE power(_, _)
power(g, k) == IF k = 0 THEN FromInt(1) ELSE RatMul(power(g, k - 1), g)

\* l_block after n rounds of the loop: 1 + g + ... + g^(n-1)
RECURSIVE l_block(_, _)
l_block(g, n) == IF n = 0 THEN FromInt(0) ELSE RatAdd(l_block(g, n - 1), power(g, n - 1))

\* cell_sizes[-1] < constants.tol.  constants.tol is a small positive number set outside
\* this file; every positive sample of the ratios tried here lies above it.
below_tol(x) == x.num <= 0

\* fcell_size(grading) for n >= 1 rounds: the value returned (None for the bare return)
\* and cell_sizes as the call leaves it
fcell_size(g, n, size, cell_size) ==
    LET bad == {k \in 1 .. n : below_tol(power(g, k))}
    IN  IF bad # {}
        THEN LET stop == CHOOSE k \in bad : \A j \in bad : k <= j
             IN  [value |-> None, cell_sizes |-> [k \in 1 .. stop + 1 |-> power(g, k - 1)]]
        ELSE LET scaled == [k \in 1 .. n + 1 |->
                               RatDiv(RatMul(power(g, k - 1), size), l_block(g, n))]
             IN  [value |-> Some(RatSub(cell_size, scaled[n + 1])), cell_sizes |-> scaled]

\* the trial ratios among which an exact root is looked for
RootCandidates(size, cell_size) ==
    {Rat(1, 2), Rat(1, 1), Rat(2, 1)}
        \cup (IF size.num # 0 THEN {RatDiv(cell_size, size)} ELSE {})

roots(n, size, cell_size) ==
    {g \in RootCandidates(size, cell_size) :
        fcell_size(g, n, size, cell_size).value = Some(Rat(0, 1))}

Outcome(e, kind, sizes) == [exc |-> e, kind |-> kind, cell_sizes |-> sizes]

\* scipy.optimize.newton(fcell_size, 1), for cell_size # 0: the outcomes it can have, each
\* with cell_sizes as its last evaluation of fcell_size left it.
\*   n is None: range(None) raises TypeError in the first evaluation.
\*   n <= 0: the loop does not run and l_block = 0; c*block_size/l_block raises
\*     ZeroDivisionError on Python floats and is inf on NumPy floats, where both first
\*     evaluations return -inf and the secant step stops on equal values: with a
\*     RuntimeError, or (releases that only warn) with cell_sizes left as [inf].
\*   n >= 1, cell_size < 0: fcell_size is negative wherever it returns a number, so no
\*     root exists; the iteration reaches the bare return (TypeError on None) or, for
\*     n >= 2, may give up (RuntimeError).  For n = 1 the secant step on the linear
\*     function lands on cell_size/block_size < 0 at once.
\*   n = 1, cell_size > 0: the function is linear and the root cell_size/block_size exact.
\*   n >= 2, cell_size > 0: the unique positive root, or no convergence (RuntimeError)
\*     unless the seed 1 is the root itself.
newton(n, size, cell_size) ==
    IF n = None THEN {Outcome("TypeError", "none", <<>>)}
    ELSE IF Val(n) <= 0
         THEN {Outcome("ZeroDivisionError", "none", <<>>), Outcome("RuntimeError", "none", <<>>),
               Outcome("none", "inf", <<>>)}
    ELSE IF cell_size.num < 0
         THEN {Outcome("TypeError", "none", <<>>)}
                  \cup (IF Val(n) >= 2 THEN {Outcome("RuntimeError", "none", <<>>)} ELSE {})
    ELSE LET found == roots(Val(n), size, cell_size)
         IN  (IF found = {}
              THEN {Outcome("none", "irrational", <<>>)}
              ELSE {Outcome("none", "rational",
                            fcell_size(g, Val(n), size, cell_size).cell_sizes) : g \in found})
                 \cup (IF Val(n) >= 2 /\ Rat(1, 1) \notin found
                       THEN {Outcome("RuntimeError", "none", <<>>)} ELSE {})

\* the ratio assigned to grading[axis] after a root was found
ratio(o, inverse) ==
    CASE o.kind = "inf" -> NaN
      [] o.kind = "irrational" -> Irrational
      [] o.kind = "rational" ->
            LET first == o.cell_sizes[1]
                last == o.cell_sizes[Len(o.cell_sizes)]
            IN  IF inverse THEN Float(RatDiv(last, first)) ELSE Float(RatDiv(first, last))

\* a faulty variant of too_large: a request equal to the block size is refused as well
too_large_or_equal(cell_size, size) == ~RatLess(RatAbs(cell_size), size)
\* abs(cell_size) > block_size
too_large(cell_size, size) == RatLess(size, RatAbs(cell_size))

_grade_to_size(axis, cell_size, inverse) ==
    LET n == n_cells[axis]
        size == get_size(axis)
    IN  /\ IF too_large(FromInt(cell_size), size)
           THEN /\ exc' = "AssertionError"
                /\ grading' = grading
           ELSE \E o \in newton(n, size, FromInt(cell_size)) :
                    /\ exc' = o.exc
                    /\ grading' = IF o.exc = "none"
                                  THEN [grading EXCEPT ![axis] = Some(ratio(o, inverse))]
                                  ELSE grading
        /\ ret' = None
        /\ UNCHANGED n_cells

-----------------------------------------------------------------------------
(* Draining the queues *)

\* DeferredFunction.call
call(df) ==
    IF df.callable = "_count_to_size"
    THEN _count_to_size(df.args[1], df.args[2])
    ELSE _grade_to_size(df.args[1], df.args[2], df.args[3])

\* the orchestrator invokes the next entry of deferred_counts
call_deferred_count ==
    /\ counts_done < Len(deferred_counts)
    /\ LET df == deferred_counts[counts_done + 1]
       IN  /\ call(df)
           /\ op' = Op(df.callable, df.args)
           /\ size_seen' = [size_seen EXCEPT ![df.args[1]] = Some(get_size(df.args[1]))]
    /\ counts_done' = counts_done + 1
    /\ UNCHANGED <<vertices, distance, edges, cell_zone, description, patches, mesh_index,
                   deferred_counts, deferred_gradings, gradings_done, size_queued, patch_log>>

\* the orchestrator invokes the next entry of deferred_gradings
call_deferred_grading ==
    /\ gradings_done < Len(deferred_gradings)
    /\ LET df == deferred_gradings[gradings_done + 1]
       IN  /\ call(df)
           /\ op' = Op(df.callable, df.args)
    /\ gradings_done' = gradings_done + 1
    /\ UNCHANGED <<vertices, distance, edges, cell_zone, description, patches, mesh_index,
                   deferred_counts, deferred_gradings, counts_done, size_queued, size_seen,
                   patch_log>>

-----------------------------------------------------------------------------
(* Construction and the callers' writes *)

AxisOf(p) == CHOOSE a \in Axes :
                 \E k \in 1 .. 4 : p = {axis_pair_indexes[a + 1][k][1], axis_pair_indexes[a + 1][k][2]}

\* the vertex distances of a box with the given extents
Box(lx, ly, lz) == [p \in TablePairs |-> <<lx, ly, lz>>[AxisOf(p) + 1]]

Unindexed == [i \in Locals |-> None]
NoPatches == [name \in {} |-> <<>>]
Unset == [a \in Axes |-> None]

\* Block.__init__, followed by the direct writes of a caller to n_cells, grading,
\* cell_zone, description and mesh_index
InitWith(vs, dist, es, counts, gradings, zone, text, index) ==
    /\ vertices = vs
    /\ distance = dist
    /\ edges = es
    /\ n_cells = counts
    /\ grading = gradings
    /\ cell_zone = zone
    /\ description = text
    /\ patches = NoPatches
    /\ mesh_index = index
    /\ deferred_counts = <<>>
    /\ deferred_gradings = <<>>
    /\ counts_done = 0
    /\ gradings_done = 0
    /\ op = Op("__init__", <<>>)
    /\ ret = None
    /\ exc = "none"
    /\ size_queued = Unset
    /\ size_seen = Unset
    /\ patch_log = <<>>

\* Block.__init__
InitBlock(vs, dist, es) == InitWith(vs, dist, es, Unset, Unset, "", "", None)

\* a caller moves the points of the vertices
move_vertices(dist) ==
    /\ distance' = dist
    /\ op' = Op("move_vertices", <<>>)
    /\ ret' = None
    /\ exc' = "none"
    /\ UNCHANGED <<vertices, edges, n_cells, grading, cell_zone, description, patches,
                   mesh_index, deferred_counts, deferred_gradings, counts_done,
                   gradings_done, size_queued, size_seen, patch_log>>

\* a caller replaces the edge list
set_edges(es) ==
    /\ edges' = es
    /\ op' = Op("set_edges", <<>>)
    /\ ret' = None
    /\ exc' = "none"
    /\ UNCHANGED <<vertices, distance, n_cells, grading, cell_zone, description, patches,
                   mesh_index, deferred_counts, deferred_gradings, counts_done,
                   gradings_done, size_queued, size_seen, patch_log>>

-----------------------------------------------------------------------------
(* Bounds and input domains *)

\* queued count requests (SpecCount); queued requests of both kinds (SpecDefer)
MaxQueue == 2
\* queued grading requests
MaxGradings == 1
\* vertices of the block that may share the global index of an earlier vertex
MaxShared == 3
\* set_patch calls
MaxCalls == 2

Shapes == {Box(10, 5, 4), [Box(10, 5, 4) EXCEPT ![{0, 1}] = 18, ![{0, 3}] = 8]}
EdgeLists == {<<>>, <<Edge(5, 4, 12), Edge(4, 5, 40)>>}
CountSizes == {-3, 0, 3}
GradeSizes == {-5, 2, 5, 7}
\* counts and gradings a caller has set directly before the gradings are resolved
CountChoices == {Unset} \cup {[a \in Axes |-> Some((a + shift) % 3)] : shift \in Axes}
GradingChoices == {Unset, [a \in Axes |-> Some([kind |-> "float", num |-> 2, den |-> 1])]}

-----------------------------------------------------------------------------
(* Count requests: queueing, geometry changes, draining *)

InitCount == \E dist \in Shapes, es \in EdgeLists : InitBlock(Unindexed, dist, es)

RequestCount ==
    /\ Len(deferred_counts) < MaxQueue
    /\ \E axis \in Axes, cell_size \in CountSizes : count_to_size(axis, cell_size)

MoveVertices == \E dist \in Shapes : dist # distance /\ move_vertices(dist)

SetEdges == \E es \in EdgeLists : es # edges /\ set_edges(es)

NextCount == RequestCount \/ MoveVertices \/ SetEdges \/ call_deferred_count

SpecCount == InitCount /\ [][NextCount]_vars

\* floor of a rational
Floor(q) == q.num \div q.den

OtherAxes(a) == Axes \ {a}

\* C2: invoking the computation queued by count_to_size(axis, cellSize), cellSize > 0,
\* sets n_cells[axis] to floor(get_size(axis)/cellSize) and leaves the other two counts
\* and all gradings as they were.
C2_CountIsFloor ==
    [][(op'.name = "_count_to_size" /\ op'.args[2] > 0) =>
           LET axis == op'.args[1]
               cell_size == op'.args[2]
           IN  /\ n_cells'[axis] = Some(Floor(RatDiv(get_size(axis), FromInt(cell_size))))
               /\ \A a \in OtherAxes(axis) : n_cells'[a] = n_cells[a]
               /\ grading' = grading]_vars

\* size 10, cellSize 3 has given 3 cells
C2_Witness ==
    /\ op.name = "_count_to_size"
    /\ op.args[2] = 3
    /\ get_size(op.args[1]) = Rat(10, 1)
    /\ n_cells[op.args[1]] = Some(3)
    /\ exc = "none"

Drained == counts_done = Len(deferred_counts)

Requests(a) == {k \in 1 .. Len(deferred_counts) : deferred_counts[k].args[1] = a}

LastRequest(a) == deferred_counts[CHOOSE k \in Requests(a) : \A j \in Requests(a) : j <= k]

\* C10 as stated: once every queued count request has been invoked in queue order,
\* n_cells[a] is floor(size/cellSize) for the last request queued for axis a, the size
\* being the one measured at invocation; None for an axis with no request.  (A request
\* with cellSize = 0 has no quotient and is left out.)
C10_FloorForEveryRequest ==
    Drained =>
        \A a \in Axes :
            IF Requests(a) = {} THEN n_cells[a] = None
            ELSE LET cell_size == LastRequest(a).args[2]
                 IN  cell_size # 0 =>
                         n_cells[a] = Some(Floor(RatDiv(Val(size_seen[a]), FromInt(cell_size))))

\* C10, amended: the same for a last request with a positive cellSize; with a negative
\* cellSize the quotient is truncated toward zero.
C10_FloorForPositiveRequests ==
    Drained =>
        \A a \in Axes :
            IF Requests(a) = {} THEN n_cells[a] = None
            ELSE LET cell_size == LastRequest(a).args[2]
                     q == RatDiv(Val(size_seen[a]), FromInt(Abs(cell_size)))
                 IN  /\ cell_size > 0 => n_cells[a] = Some(Floor(q))
                     /\ cell_size < 0 => n_cells[a] = Some(-Floor(q))

\* two requests for one axis, the block changed between queueing and invocation, and
\* the count is the one of the last request and of the size at invocation
C10_Witness ==
    /\ Drained
    /\ \E a \in Axes :
           /\ Cardinality(Requests(a)) = 2
           /\ deferred_counts[1].args[2] # deferred_counts[2].args[2]
           /\ LastRequest(a).args[2] > 0
           /\ size_seen[a] # size_queued[a]
           /\ n_cells[a] = Some(Floor(RatDiv(Val(size_seen[a]), FromInt(LastRequest(a).args[2]))))
           /\ n_cells[a] # Some(Floor(RatDiv(Val(size_queued[a]), FromInt(LastRequest(a).args[2]))))
           /\ \E b \in Axes : Requests(b) = {} /\ n_cells[b] = None

-----------------------------------------------------------------------------
(* Grading requests *)

InitGrade ==
    \E es \in EdgeLists, counts \in CountChoices, gradings \in GradingChoices :
        InitWith(Unindexed, Box(10, 5, 4), es, counts, gradings, "", "", None)

RequestGrading ==
    /\ Len(deferred_gradings) < MaxGradings
    /\ \E axis \in Axes, cell_size \in GradeSizes, inverse \in BOOLEAN :
           grade_to_size(axis, cell_size, inverse)

NextGrade == RequestGrading \/ call_deferred_grading

SpecGrade == InitGrade /\ [][NextGrade]_vars

\* |s| > size and |s| = size for an integer s and a rational size
Exceeds(s, size) == Abs(s) * size.den > size.num
Matches(s, size) == Abs(s) * size.den = size.num

\* C3: invoking the computation queued by grade_to_size(axis, s, inverse) with
\* |s| > get_size(axis) raises the precondition error and leaves grading as it was;
\* with |s| = get_size(axis) the precondition error is not raised.
C3_TooLargeIsRefused ==
    [][op'.name = "_grade_to_size" =>
           LET axis == op'.args[1]
               s == op'.args[2]
           IN  /\ Exceeds(s, get_size(axis)) =>
                      /\ exc' = "AssertionError"
                      /\ grading' = grading
                      /\ n_cells' = n_cells
               /\ Matches(s, get_size(axis)) => exc' # "AssertionError"]_vars

\* block size 5, requested 7: refused, and the grading set before is still there
C3_Witness ==
    /\ op.name = "_grade_to_size"
    /\ op.args[2] = 7
    /\ get_size(op.args[1]) = Rat(5, 1)
    /\ exc = "AssertionError"
    /\ grading[op.args[1]] = Some(Float(Rat(2, 1)))

IsOne(g) == g # None /\ Val(g).kind \in {"float", "int"} /\ Val(g).num = Val(g).den

\* C9: with n_cells[axis] 0 or 1 and 0 < |s| <= get_size(axis), the computation queued
\* by grade_to_size(axis, s, inverse) completes without error and sets grading[axis] to 1.
C9_DegenerateCountGradesToOne ==
    (/\ op.name = "_grade_to_size"
     /\ n_cells[op.args[1]] \in {Some(0), Some(1)}
     /\ op.args[2] # 0
     /\ ~Exceeds(op.args[2], get_size(op.args[1])))
        => (exc = "none" /\ IsOne(grading[op.args[1]]))

-----------------------------------------------------------------------------
(* Queueing alone *)

InitDefer ==
    \E counts \in CountChoices, gradings \in GradingChoices :
        InitWith(Unindexed, Box(10, 5, 4), <<>>, counts, gradings, "", "", None)

QueueRoom == Len(deferred_counts) + Len(deferred_gradings) < MaxQueue

QueueCount ==
    /\ QueueRoom
    /\ \E axis \in Axes, cell_size \in CountSizes : count_to_size(axis, cell_size)

QueueGrading ==
    /\ QueueRoom
    /\ \E axis \in Axes, cell_size \in GradeSizes, inverse \in BOOLEAN :
           grade_to_size(axis, cell_size, inverse)

NextDefer == QueueCount \/ QueueGrading

SpecDefer == InitDefer /\ [][NextDefer]_vars

\* new is old with one entry, the call named, added at the tail
AppendedTo(old, new, callable, args) ==
    /\ Len(new) = Len(old) + 1
    /\ \A k \in 1 .. Len(old) : new[k] = old[k]
    /\ new[Len(new)].callable = callable
    /\ new[Len(new)].args = args

\* C1: count_to_size and grade_to_size compute nothing: each adds one deferred
\* computation at the tail of its own queue, keeps the queued entries in order, and
\* leaves n_cells, grading, the other queue, patches, vertices and mesh_index alone.
C1_RequestsOnlyQueue ==
    [][/\ op'.name = "count_to_size" =>
              /\ AppendedTo(deferred_counts, deferred_counts', "_count_to_size", op'.args)
              /\ UNCHANGED <<n_cells, grading, deferred_gradings, patches, vertices,
                             mesh_index, counts_done, gradings_done>>
       /\ op'.name = "grade_to_size" =>
              /\ AppendedTo(deferred_gradings, deferred_gradings', "_grade_to_size", op'.args)
              /\ UNCHANGED <<n_cells, grading, deferred_counts, patches, vertices,
                             mesh_index, counts_done, gradings_done>>]_vars

\* a second, different count request has been queued behind the first, on a block whose
\* counts and gradings are set
C1_Witness ==
    /\ op.name = "count_to_size"
    /\ Len(deferred_counts) = 2
    /\ deferred_counts[1] # deferred_counts[2]
    /\ deferred_counts[2].args = op.args
    /\ n_cells # Unset
    /\ grading # Unset

-----------------------------------------------------------------------------
(* Global indexes and the axis queries *)

\* the orchestrator gives the next vertex of the block its global index: a new one, or
\* the one of an earlier vertex at the same point
Indexed == {i \in Locals : vertices[i] # None}

set_mesh_index(i, g) ==
    /\ vertices' = [vertices EXCEPT ![i] = Some(g)]
    /\ op' = Op("set_mesh_index", <<>>)
    /\ ret' = None
    /\ exc' = "none"
    /\ UNCHANGED <<distance, edges, n_cells, grading, cell_zone, description, patches,
                   mesh_index, deferred_counts, deferred_gradings, counts_done,
                   gradings_done, size_queued, size_seen, patch_log>>

Query(name, args, value) ==
    /\ op' = Op(name, args)
    /\ ret' = value
    /\ exc' = "none"
    /\ UNCHANGED <<vertices, distance, edges, n_cells, grading, cell_zone, description,
                   patches, mesh_index, deferred_counts, deferred_gradings, counts_done,
                   gradings_done, size_queued, size_seen, patch_log>>

get_axis_from_pair(pair) == Query("get_axis_from_pair", pair, axis_from_pair(pair))

InitTopo == InitBlock(Unindexed, Box(10, 5, 4), <<>>)

AssignIndex ==
    \E i \in Locals, g \in Locals :
        LET used == Cardinality({vertices[j] : j \in Indexed})
        IN  /\ i = Cardinality(Indexed)
            /\ g <= used
            /\ g < used => Cardinality(Indexed) - used < MaxShared
            /\ set_mesh_index(i, g)

\* the axis queries are made once the orchestrator has indexed the block's vertices
AxisVertexPairs ==
    /\ Indexed = Locals
    /\ \E axis \in Axes :
           Query("get_axis_vertex_pairs", <<axis>>, get_axis_vertex_pairs(axis))

\* the local vertices whose global indexes are looked up: the 12 table pairs, one of
\* them reversed, a face diagonal and a space diagonal
LookedUp ==
    {axis_pair_indexes[a + 1][k] : a \in Axes, k \in 1 .. 4}
        \cup {<<1, 0>>, <<0, 2>>, <<0, 6>>}

AxisFromPair ==
    /\ Indexed = Locals
    /\ \E locals \in LookedUp :
           get_axis_from_pair(<<vertices[locals[1]], vertices[locals[2]]>>)

NextTopo == AssignIndex \/ AxisVertexPairs \/ AxisFromPair

SpecTopo == InitTopo /\ [][NextTopo]_vars

\* the table pairs of the axis whose two vertices have different global indexes
Distinct(axis) ==
    {k \in 1 .. 4 : vertices[axis_pair_indexes[axis + 1][k][1]]
                        # vertices[axis_pair_indexes[axis + 1][k][2]]}

\* C4: get_axis_vertex_pairs(axis) is, in table order, the global-index pairs of the
\* table pairs whose vertices have different global indexes: at most 4 pairs, each of
\* two distinct elements.
C4_DegeneratePairsOmitted ==
    op.name = "get_axis_vertex_pairs" =>
        LET axis == op.args[1]
            table == axis_pair_indexes[axis + 1]
            position(k) == Cardinality({j \in Distinct(axis) : j <= k})
        IN  /\ exc = "none"
            /\ Len(ret) = Cardinality(Distinct(axis))
            /\ Len(ret) <= 4
            /\ \A k \in Distinct(axis) :
                   ret[position(k)] = {vertices[table[k][1]], vertices[table[k][2]]}
            /\ \A j \in 1 .. Len(ret) : Cardinality(ret[j]) = 2

\* all 8 vertices indexed, one pair of the axis collapsed, the other 3 returned
C4_Witness ==
    /\ op.name = "get_axis_vertex_pairs"
    /\ Indexed = Locals
    /\ Cardinality({vertices[i] : i \in Locals}) = 7
    /\ Len(ret) = 3

Holds(a, pair) == InList({pair[1], pair[2]}, get_axis_vertex_pairs(a))

\* C5 as stated: get_axis_from_pair(p) returns a for every axis a and every pair p of
\* get_axis_vertex_pairs(a), and None for a pair in no axis's result.
C5_InverseOfEveryAxis ==
    op.name = "get_axis_from_pair" =>
        /\ \A a \in Axes : Holds(a, op.args) => ret = Some(a)
        /\ (\A a \in Axes : ~Holds(a, op.args)) => ret = None

\* C5, amended: get_axis_from_pair(p) returns the lowest axis whose result holds p, so it
\* returns a for a pair of get_axis_vertex_pairs(a) that no lower axis holds; None for a
\* pair in no axis's result.
C5_LowestAxisHoldingPair ==
    op.name = "get_axis_from_pair" =>
        /\ \A a \in Axes :
               (Holds(a, op.args) /\ \A b \in Axes : b < a => ~Holds(b, op.args))
                   => ret = Some(a)
        /\ (\A a \in Axes : ~Holds(a, op.args)) => ret = None

\* a pair held by the results of two axes, looked up
C5_Witness ==
    /\ op.name = "get_axis_from_pair"
    /\ Cardinality({a \in Axes : Holds(a, op.args)}) = 2
    /\ ret # None
    /\ Holds(Val(ret), op.args)

-----------------------------------------------------------------------------
(* Patches and faces *)

\* the sides argument of set_patch: one side name (a str) or a list of side names
Str(side) == [type |-> "str", value |-> side]
List(sides) == [type |-> "list", value |-> sides]

\* a faulty variant of extend: a side already in the list is not added again
RECURSIVE extend_unique(_, _)
extend_unique(list, sides) ==
    IF sides = <<>> THEN list
    ELSE extend_unique(IF InList(Head(sides), list) THEN list ELSE Append(list, Head(sides)),
                       Tail(sides))
\* list += sides
extend(list, sides) == list \o sides

set_patch(sides, patch_name) ==
    LET side_list == IF sides.type = "str" THEN <<sides.value>> ELSE sides.value
        created == IF patch_name \notin DOMAIN patches
                   THEN (patch_name :> <<>>) @@ patches
                   ELSE patches
    IN  /\ patches' = [created EXCEPT ![patch_name] = extend(@, side_list)]
        /\ op' = Op("set_patch", <<sides, patch_name>>)
        /\ ret' = None
        /\ exc' = "none"
        /\ patch_log' = Append(patch_log, <<sides, patch_name>>)
        /\ UNCHANGED <<vertices, distance, edges, n_cells, grading, cell_zone, description,
                       mesh_index, deferred_counts, deferred_gradings, counts_done,
                       gradings_done, size_queued, size_seen>>

\* "({} {} {} {})".format of the mesh_index of the side's 4 vertices
format_face(side) ==
    LET indexes == face_map[side]
    IN  "(" \o str(vertices[indexes[1]]) \o " " \o str(vertices[indexes[2]]) \o " "
            \o str(vertices[indexes[3]]) \o " " \o str(vertices[indexes[4]]) \o ")"

faces_of(patch) ==
    IF patch \notin DOMAIN patches THEN <<>>
    ELSE [k \in 1 .. Len(patches[patch]) |-> format_face(patches[patch][k])]

get_faces(patch) ==
    /\ ret' = faces_of(patch)
    /\ op' = Op("get_faces", <<patch>>)
    /\ exc' = "none"
    /\ UNCHANGED <<vertices, distance, edges, n_cells, grading, cell_zone, description,
                   patches, mesh_index, deferred_counts, deferred_gradings, counts_done,
                   gradings_done, size_queued, size_seen, patch_log>>

PatchNames == {"inlet", "walls"}
SideNames == {"top", "left"}
SideLists == {<<>>, <<"top", "bottom">>, <<"left", "left">>, <<"back", "front", "right">>}
\* a block indexed on its own, and a wedge (vertices 2, 3 and 6, 7 collapsed) in a larger mesh
VertexChoices ==
    {[i \in Locals |-> Some(i)],
     [i \in Locals |-> Some(<<10, 11, 12, 12, 14, 15, 16, 16>>[i + 1])]}

InitPatch == \E vs \in VertexChoices : InitBlock(vs, Box(10, 5, 4), <<>>)

SetPatch ==
    /\ Len(patch_log) < MaxCalls
    /\ \E patch_name \in PatchNames :
           \/ \E side \in SideNames : set_patch(Str(side), patch_name)
           \/ \E sides \in SideLists : set_patch(List(sides), patch_name)

GetFaces == \E patch \in PatchNames \cup {"outlet"} : get_faces(patch)

NextPatch == SetPatch \/ GetFaces

SpecPatch == InitPatch /\ [][NextPatch]_vars

\* the sides passed to set_patch under the name in the first k calls, in call order
RECURSIVE SidesPassed(_, _)
SidesPassed(patch, k) ==
    IF k = 0 THEN <<>>
    ELSE LET sides == patch_log[k][1]
         IN  IF patch_log[k][2] # patch THEN SidesPassed(patch, k - 1)
             ELSE IF sides.type = "str" THEN Append(SidesPassed(patch, k - 1), sides.value)
             ELSE SidesPassed(patch, k - 1) \o sides.value

\* the global indexes of the side's 4 vertices, in face_map order
Face(side) ==
    "(" \o str(vertices[face_map[side][1]]) \o " " \o str(vertices[face_map[side][2]])
        \o " " \o str(vertices[face_map[side][3]]) \o " " \o str(vertices[face_map[side][4]])
        \o ")"

\* C6: get_faces(name) returns one formatted face per side passed to set_patch under
\* that name, in call order, duplicates kept; for a name never passed it returns the
\* empty list, raises nothing and adds no entry to patches.
C6_FacesOfPassedSides ==
    [][op'.name = "get_faces" =>
           LET patch == op'.args[1]
               passed == SidesPassed(patch, Len(patch_log))
           IN  /\ exc' = "none"
               /\ patches' = patches
               /\ Len(ret') = Len(passed)
               /\ \A k \in 1 .. Len(passed) : ret'[k] = Face(passed[k])
               /\ (\A k \in 1 .. Len(patch_log) : patch_log[k][2] # patch) =>
                      (ret' = <<>> /\ patch \notin DOMAIN patches')]_vars

\* set_patch(['top', 'bottom'], 'inlet'), set_patch('left', 'inlet'): 3 faces
C6_Witness ==
    /\ op.name = "get_faces"
    /\ op.args[1] = "inlet"
    /\ Len(patch_log) = 2
    /\ patch_log[1][2] = "inlet" /\ patch_log[2][2] = "inlet"
    /\ patch_log[1][1].type = "list" /\ patch_log[1][1].value = <<"top", "bottom">>
    /\ patch_log[2][1].type = "str" /\ patch_log[2][1].value = "left"
    /\ vertices = [i \in Locals |-> Some(i)]
    /\ ret = <<"(4 5 6 7)", "(0 1 2 3)", "(4 0 3 7)">>

-----------------------------------------------------------------------------
(* Serialization *)

\* str() of a grading value.  A float with a fractional part other than .5 stands as
\* num/den for its decimal expansion.
number_str(g) ==
    CASE g.kind = "int" -> ToString(g.num)
      [] g.kind = "nan" -> "nan"
      [] g.kind = "irrational" -> "irrational"
      [] g.kind = "float" /\ g.den = 1 -> ToString(g.num) \o ".0"
      [] g.kind = "float" /\ g.den = 2 -> ToString(g.num \div 2) \o ".5"
      [] OTHER -> ToString(g.num) \o "/" \o ToString(g.den)

\* a faulty variant of grading_or_default: an unset grading is written as it is
grading_or_none(g) == IF g # None THEN number_str(Val(g)) ELSE "None"
\* self.grading[i] if self.grading[i] is not None else 1, formatted
grading_or_default(g) == IF g # None THEN number_str(Val(g)) ELSE "1"

\* {self.n_cells[0]} {self.n_cells[1]} {self.n_cells[2]}
count_column == <<str(n_cells[0]), str(n_cells[1]), str(n_cells[2])>>

\* the record of __repr__, split at its blanks into its fields (cell_zone and
\* description are one field each, empty or not)
repr_fields ==
    <<"hex", "(">> \o [k \in 1 .. 8 |-> str(vertices[k - 1])] \o <<")">>
        \o <<cell_zone>>
        \o <<"(">> \o count_column \o <<")">>
        \o <<"simpleGrading", "(">>
        \o [k \in 1 .. 3 |-> grading_or_default(grading[k - 1])] \o <<")">>
        \o <<"//", str(mesh_index), description>>

__repr__ ==
    /\ ret' = repr_fields
    /\ op' = Op("__repr__", <<>>)
    /\ exc' = "none"
    /\ UNCHANGED <<vertices, distance, edges, n_cells, grading, cell_zone, description,
                   patches, mesh_index, deferred_counts, deferred_gradings, counts_done,
                   gradings_done, size_queued, size_seen, patch_log>>

CountValues == {None, Some(2), Some(5), Some(10)}
GradingValues == {None, Some(Float(Rat(2, 1))), Some(Float(Rat(1, 2))), Some(Integer(3))}

InitRepr ==
    \E vs \in VertexChoices, counts \in [Axes -> CountValues],
       gradings \in [Axes -> GradingValues], index \in {None, Some(3)},
       zone \in {"", "fluid"} :
        InitWith(vs, Box(10, 5, 4), <<>>, counts, gradings, zone, "from points", index)

NextRepr == __repr__

SpecRepr == InitRepr /\ [][NextRepr]_vars

Resolved == \A a \in Axes : n_cells[a] # None

\* C7: the record of a block with its three counts resolved holds the 8 vertex indexes
\* in local order, cell_zone, the three counts, per axis the grading or 1 where none was
\* set, then mesh_index and description; serialization changes no field of the block.
C7_RecordOfResolvedBlock ==
    [][op'.name = "__repr__" =>
           /\ block' = block
           /\ exc' = "none"
           /\ Resolved =>
                  /\ Len(ret') = 26
                  /\ ret'[1] = "hex"
                  /\ \A i \in Locals : ret'[3 + i] = str(vertices[i])
                  /\ ret'[12] = cell_zone
                  /\ \A a \in Axes : ret'[14 + a] = ToString(Val(n_cells[a]))
                  /\ ret'[18] = "simpleGrading"
                  /\ \A a \in Axes :
                         ret'[20 + a] = IF grading[a] = None THEN "1"
                                        ELSE number_str(Val(grading[a]))
                  /\ ret'[24] = "//"
                  /\ ret'[25] = str(mesh_index)
                  /\ ret'[26] = description]_vars

\* n_cells = [10, 5, 2], grading = [None, 2.0, None], mesh_index = 3
C7_Witness ==
    /\ op.name = "__repr__"
    /\ n_cells[0] = Some(10) /\ n_cells[1] = Some(5) /\ n_cells[2] = Some(2)
    /\ grading[0] = None /\ grading[1] = Some(Float(Rat(2, 1))) /\ grading[2] = None
    /\ mesh_index = Some(3)
    /\ SubSeq(ret, 13, 17) = <<"(", "10", "5", "2", ")">>
    /\ SubSeq(ret, 19, 23) = <<"(", "1", "2.0", "1", ")">>
    /\ ret[25] = "3"

\* C8: serializing a block with a count still unresolved surfaces a failure instead of
\* producing a record.
C8_UnresolvedCountIsAFailure ==
    (op.name = "__repr__" /\ ~Resolved) => (exc # "none" /\ ret = None)

====
